---- MODULE Spec2Model ----
(***************************************************************************)
(* Derivation engine of the IMEI swap analyser (src/App.tsx and the        *)
(* MetricsView component): record parser, lifespan calculator, filter      *)
(* engine, forensic enricher, unit history builder and aggregate           *)
(* statistics, together with the React state they live in.                 *)
(***************************************************************************)
EXTENDS Integers, Sequences, FiniteSets, TLC

VARIABLES text, loading, rawData, errorCount, filters, activeTab,
          nowTs, lifespanMap, unitChangeCounts, filteredLogs,
          enrichedChanges, unitHistories, stats

vars == <<text, loading, rawData, errorCount, filters, activeTab,
          nowTs, lifespanMap, unitChangeCounts, filteredLogs,
          enrichedChanges, unitHistories, stats>>

(***************************************************************************)
(* JavaScript values.  A value that the code tests with typeof, ===, ??,    *)
(* || or ! is a tagged record, so that undefined, null and 0 stay apart.   *)
(* Strings the code inspects are sequences of one-character strings.       *)
(***************************************************************************)
Undefined == [t |-> "undefined"]

Null == [t |-> "null"]

Num(n) == [t |-> "number", n |-> n]

Str(s) == [t |-> "string", s |-> s]

SyntaxError == [t |-> "SyntaxError"]

IsNum(v) == v.t = "number"

Nullish(v) == v.t \in {"undefined", "null"}

Truthy(v) ==
  CASE v.t = "number" -> v.n # 0
    [] v.t = "string" -> v.s # <<>>
    [] v.t = "object" -> TRUE
    [] OTHER -> FALSE

\* a || 0 on a value that is a number, null or undefined
OrZero(v) == IF Truthy(v) THEN v.n ELSE 0

(***************************************************************************)
(* String helpers: toLowerCase, includes, trim, number formatting.         *)
(***************************************************************************)
LowerChar(c) ==
  CASE c = "U" -> "u"
    [] c = "A" -> "a"
    [] c = "B" -> "b"
    [] c = "C" -> "c"
    [] c = "X" -> "x"
    [] OTHER -> c

ToLowerCase(s) == [i \in 1..Len(s) |-> LowerChar(s[i])]

Includes(s, sub) ==
  \E i \in 0..(Len(s) - Len(sub)) : SubSeq(s, i + 1, i + Len(sub)) = sub

WhiteSpace == {" ", "\t", "\r"}

Trim(s) ==
  LET keep == {i \in 1..Len(s) : s[i] \notin WhiteSpace}
  IN IF keep = {} THEN <<>>
     ELSE LET lo == CHOOSE i \in keep : \A j \in keep : i <= j
              hi == CHOOSE i \in keep : \A j \in keep : i >= j
          IN SubSeq(s, lo, hi)

DigitChar(d) ==
  CASE d = 0 -> "0" [] d = 1 -> "1" [] d = 2 -> "2" [] d = 3 -> "3"
    [] d = 4 -> "4" [] d = 5 -> "5" [] d = 6 -> "6" [] d = 7 -> "7"
    [] d = 8 -> "8" [] d = 9 -> "9"

RECURSIVE NatToStr(_)
NatToStr(n) ==
  IF n < 10 THEN <<DigitChar(n)>>
  ELSE NatToStr(n \div 10) \o <<DigitChar(n % 10)>>

\* template-literal formatting of an integer
NumToStr(n) == IF n < 0 THEN <<"-">> \o NatToStr(0 - n) ELSE NatToStr(n)

(***************************************************************************)
(* Array.prototype.sort with a comparator: a stable sort.  lt[i][j] is     *)
(* "the comparator returns a negative number for (s[i], s[j])".  The        *)
(* elements, the comparisons and the ranks are each computed once.         *)
(***************************************************************************)
StableSort(s, lt) ==
  LET n == Len(s)
      elems == SubSeq(s, 1, n)
      less == SubSeq([i \in 1..n |-> SubSeq(lt[i], 1, n)], 1, n)
      rank(i) == Cardinality({j \in 1..n :
                    \/ less[j][i]
                    \/ (~less[i][j] /\ j < i)})
      ranks == SubSeq([i \in 1..n |-> rank(i)], 1, n)
  IN SubSeq([k \in 1..n |-> elems[CHOOSE i \in 1..n : ranks[i] = k - 1]],
            1, n)

RECURSIVE SeqToSet(_)
SeqToSet(s) == IF s = <<>> THEN {} ELSE {Head(s)} \cup SeqToSet(Tail(s))

(***************************************************************************)
(* Data: telemetry readings (LocationData), events (ImeiLog), input lines. *)
(***************************************************************************)
Telemetry(ts, pwr, iccid, io11, io14, gsm, hdop) ==
  [t |-> "object", ts |-> ts, pwr_ext |-> pwr, iccid |-> iccid,
   io_11 |-> io11, io_14 |-> io14, gsm |-> gsm, hdop |-> hdop]

\* a reading that reports a timestamp and an external voltage only
Tel(ts, pwr) ==
  Telemetry(ts, pwr, Undefined, Undefined, Undefined, Undefined, Undefined)

ImeiLog(st, u, id, ant, nuevo, ts, time, last, fa, dt) ==
  [t |-> "object", status |-> st, unidad |-> u, unit_id |-> id,
   imei_ant |-> ant, imei_nuevo |-> nuevo, cambio_ts |-> ts,
   cambio_time |-> time, last |-> last, first_after |-> fa,
   downtime_seconds |-> dt]

\* loc?.field
OptTs(loc) == IF Nullish(loc) THEN Undefined ELSE loc.ts

OptPwr(loc) == IF Nullish(loc) THEN Undefined ELSE loc.pwr_ext

OptGsm(loc) == IF Nullish(loc) THEN Undefined ELSE loc.gsm

OptHdop(loc) == IF Nullish(loc) THEN Undefined ELSE loc.hdop

\* A line of the uploaded text: its characters and what JSON.parse makes
\* of it (a value, or SyntaxError when it throws).
Line(chars, value) == [chars |-> chars, value |-> value]

JsonLine(value) == Line(<<"{">>, value)

OkStatus == Str(<<"o", "k">>)

(***************************************************************************)
(* Record Parser: processNdjson.                                           *)
(***************************************************************************)
\* variant: a decoded line whose status is not "ok" is dropped uncounted
LineOutcomeNoElse(line) ==
  IF Trim(line.chars) = <<>> THEN "skip"
  ELSE IF line.value = SyntaxError THEN "error"
  ELSE IF line.value = Null THEN "error"
  ELSE IF line.value.t = "object" /\ line.value.status = OkStatus THEN "push"
  ELSE "skip"

\* variant: every decoded record is pushed, whatever its status
LineOutcomeAnyStatus(line) ==
  IF Trim(line.chars) = <<>> THEN "skip"
  ELSE IF line.value = SyntaxError THEN "error"
  ELSE IF line.value = Null THEN "error"
  ELSE IF line.value.t = "object" THEN "push"
  ELSE "error"

\* what the forEach body does with one line: "skip", "push" or "error"
LineOutcome(line) ==
  IF Trim(line.chars) = <<>> THEN "skip"
  ELSE IF line.value = SyntaxError THEN "error"
  ELSE IF line.value = Null THEN "error"
  ELSE IF line.value.t = "object" /\ line.value.status = OkStatus THEN "push"
  ELSE "error"

ParsedLogs(lines) ==
  LET pushed == SelectSeq(lines, LAMBDA l : LineOutcome(l) = "push")
  IN [i \in 1..Len(pushed) |-> pushed[i].value]

ParsedErrors(lines) ==
  Cardinality({i \in 1..Len(lines) : LineOutcome(lines[i]) = "error"})

(***************************************************************************)
(* Grouping by unit: a Map keeps its keys in order of first insertion.     *)
(***************************************************************************)
IdxSeq(S) ==
  [k \in 1..Cardinality(S) |->
     CHOOSE i \in S : Cardinality({j \in S : j < i}) = k - 1]

UnitOrder(logs) ==
  LET firsts == {i \in 1..Len(logs) :
                   \A j \in 1..(i - 1) : logs[j].unidad # logs[i].unidad}
      idx == IdxSeq(firsts)
  IN [k \in 1..Len(idx) |-> logs[idx[k]].unidad]

GroupOf(logs, u) == SelectSeq(logs, LAMBDA l : l.unidad = u)

TsBefore(a, b) == a.cambio_ts < b.cambio_ts

SortedAsc(logs) ==
  StableSort(logs, [i \in 1..Len(logs) |->
                     [j \in 1..Len(logs) |-> TsBefore(logs[i], logs[j])]])

(***************************************************************************)
(* Lifespan Calculator: lifespanMap.                                       *)
(***************************************************************************)
CompositeKey(log) ==
  log.unidad \o <<"-">> \o NumToStr(log.cambio_ts) \o <<"-">> \o log.imei_nuevo

\* the map.set calls made for one group, in order
GroupEntries(logs) ==
  LET sorted == SortedAsc(logs)
  IN [i \in 1..(Len(sorted) - 1) |->
        [key |-> CompositeKey(sorted[i + 1]),
         val |-> sorted[i + 1].cambio_ts - sorted[i].cambio_ts]]

RECURSIVE AllEntries(_, _)
AllEntries(logs, units) ==
  IF units = <<>> THEN <<>>
  ELSE GroupEntries(GroupOf(logs, Head(units))) \o AllEntries(logs, Tail(units))

\* a later map.set on the same key overwrites the earlier one
MapOfEntries(entries) ==
  LET keys == {entries[i].key : i \in 1..Len(entries)}
      last(k) == CHOOSE i \in 1..Len(entries) :
                   /\ entries[i].key = k
                   /\ \A j \in 1..Len(entries) : entries[j].key = k => j <= i
  IN [k \in keys |-> entries[last(k)].val]

LifespanMapOf(logs) == MapOfEntries(AllEntries(logs, UnitOrder(logs)))

\* Map.get
MapGet(m, k) == IF k \in DOMAIN m THEN Num(m[k]) ELSE Undefined

(***************************************************************************)
(* Filter Engine: unitChangeCounts and filteredLogs.                       *)
(***************************************************************************)
\* log.unidad of a record that has no such field: undefined, which prints as
\* "undefined" in a template literal and equals no string
NoUnidad == <<"undefined">>

\* log.unidad.toLowerCase() raises a TypeError when unidad is undefined; it
\* is evaluated for each event once the search is not empty
SearchThrows(logs, search) ==
  search # <<>> /\ \E i \in 1..Len(logs) : logs[i].unidad = NoUnidad

UnitChangeCountsOf(logs) ==
  [u \in {logs[i].unidad : i \in 1..Len(logs)} |->
     Cardinality({i \in 1..Len(logs) : logs[i].unidad = u})]

\* new Date(s): the time value in seconds, for the strings the model uses;
\* any other string is an Invalid Date, whose comparisons are all false.
DateValid(s) ==
  s \in {"2024-01-01 00:00:00", "2024-06-01 00:00:00",
         "2024-01-01T00:00", "2024-03-01T00:00", "2024-06-01T00:00"}

DateTime(s) ==
  CASE s = "2024-01-01 00:00:00" -> 1704067200
    [] s = "2024-01-01T00:00" -> 1704067200
    [] s = "2024-03-01T00:00" -> 1709251200
    [] s = "2024-06-01 00:00:00" -> 1717200000
    [] s = "2024-06-01T00:00" -> 1717200000

DateLess(a, b) == DateValid(a) /\ DateValid(b) /\ DateTime(a) < DateTime(b)

IsInstallation(log) ==
  ~Truthy(log.imei_ant) \/ Trim(log.imei_ant.s) = <<>>

\* log.downtime_seconds ?? ((first_after?.ts && last?.ts) ? diff : null)
EffectiveDowntime(log) ==
  IF ~Nullish(log.downtime_seconds) THEN log.downtime_seconds
  ELSE IF Truthy(OptTs(log.first_after)) /\ Truthy(OptTs(log.last))
       THEN Num(log.first_after.ts.n - log.last.ts.n)
       ELSE Null

FilterPowerCut(log) ==
  LET pwr == OptPwr(log.last) IN IsNum(pwr) /\ pwr.n < 5

NoBound == Str(<<>>)

\* variant: the unit count is tested whether or not the option is on
KeepLogAlwaysMulti(log, f, counts) ==
  LET eff == EffectiveDowntime(log)
      count == IF log.unidad \in DOMAIN counts THEN counts[log.unidad] ELSE 0
  IN /\ ~(f.search # <<>>
          /\ ~Includes(ToLowerCase(log.unidad), ToLowerCase(f.search)))
     /\ ~(f.hideInstallations /\ IsInstallation(log))
     /\ ~(f.dateFrom # "" /\ DateLess(log.cambio_time, f.dateFrom))
     /\ ~(f.dateTo # "" /\ DateLess(f.dateTo, log.cambio_time))
     /\ ~(count <= 1)
     /\ ~(f.onlyPowerCuts /\ ~FilterPowerCut(log))
     /\ ~(f.onlyWithDowntime /\ eff = Null)
     /\ ~(f.minDowntime # NoBound /\ OrZero(eff) < f.minDowntime.n)
     /\ ~(f.maxDowntime # NoBound /\ OrZero(eff) > f.maxDowntime.n)

\* variant: units with a single event pass the multiple-change test
KeepLogOffByOne(log, f, counts) ==
  LET eff == EffectiveDowntime(log)
      count == IF log.unidad \in DOMAIN counts THEN counts[log.unidad] ELSE 0
  IN /\ ~(f.search # <<>>
          /\ ~Includes(ToLowerCase(log.unidad), ToLowerCase(f.search)))
     /\ ~(f.hideInstallations /\ IsInstallation(log))
     /\ ~(f.dateFrom # "" /\ DateLess(log.cambio_time, f.dateFrom))
     /\ ~(f.dateTo # "" /\ DateLess(f.dateTo, log.cambio_time))
     /\ ~(f.onlyMultipleChanges /\ count < 1)
     /\ ~(f.onlyPowerCuts /\ ~FilterPowerCut(log))
     /\ ~(f.onlyWithDowntime /\ eff = Null)
     /\ ~(f.minDowntime # NoBound /\ OrZero(eff) < f.minDowntime.n)
     /\ ~(f.maxDowntime # NoBound /\ OrZero(eff) > f.maxDowntime.n)

\* variant: the date range is consulted only while the search is empty
KeepLogSearchSkipsDates(log, f, counts) ==
  LET eff == EffectiveDowntime(log)
      count == IF log.unidad \in DOMAIN counts THEN counts[log.unidad] ELSE 0
  IN /\ ~(f.search # <<>>
          /\ ~Includes(ToLowerCase(log.unidad), ToLowerCase(f.search)))
     /\ ~(f.hideInstallations /\ IsInstallation(log))
     /\ ~(f.search = <<>> /\ f.dateFrom # ""
          /\ DateLess(log.cambio_time, f.dateFrom))
     /\ ~(f.search = <<>> /\ f.dateTo # ""
          /\ DateLess(f.dateTo, log.cambio_time))
     /\ ~(f.onlyMultipleChanges /\ count <= 1)
     /\ ~(f.onlyPowerCuts /\ ~FilterPowerCut(log))
     /\ ~(f.onlyWithDowntime /\ eff = Null)
     /\ ~(f.minDowntime # NoBound /\ OrZero(eff) < f.minDowntime.n)
     /\ ~(f.maxDowntime # NoBound /\ OrZero(eff) > f.maxDowntime.n)

KeepLog(log, f, counts) ==
  LET eff == EffectiveDowntime(log)
      count == IF log.unidad \in DOMAIN counts THEN counts[log.unidad] ELSE 0
  IN /\ ~(f.search # <<>>
          /\ ~Includes(ToLowerCase(log.unidad), ToLowerCase(f.search)))
     /\ ~(f.hideInstallations /\ IsInstallation(log))
     /\ ~(f.dateFrom # "" /\ DateLess(log.cambio_time, f.dateFrom))
     /\ ~(f.dateTo # "" /\ DateLess(f.dateTo, log.cambio_time))
     /\ ~(f.onlyMultipleChanges /\ count <= 1)
     /\ ~(f.onlyPowerCuts /\ ~FilterPowerCut(log))
     /\ ~(f.onlyWithDowntime /\ eff = Null)
     /\ ~(f.minDowntime # NoBound /\ OrZero(eff) < f.minDowntime.n)
     /\ ~(f.maxDowntime # NoBound /\ OrZero(eff) > f.maxDowntime.n)

FilteredLogsOf(logs, f, counts) ==
  SelectSeq(logs, LAMBDA l : KeepLog(l, f, counts))

(***************************************************************************)
(* Forensic Enricher: enrichedChanges.                                     *)
(***************************************************************************)
ZeroIccid == <<"0", "0", "0", "0", "0", "0", "0", "0", "0", "0", "0">>

\* returns the characters of the resolved SIM identifier ('' when none)
GetEffectiveIccid(loc) ==
  IF ~Truthy(loc) THEN <<>>
  ELSE IF Truthy(loc.iccid) /\ loc.iccid.s # ZeroIccid THEN loc.iccid.s
  ELSE IF Truthy(loc.io_11) /\ Truthy(loc.io_14)
       THEN NumToStr(loc.io_11.n) \o NumToStr(loc.io_14.n)
       ELSE <<>>

IsPowerCut(log) ==
  LET pwr == OptPwr(log.last) IN IsNum(pwr) /\ pwr.n >= 0 /\ pwr.n < 5

IsSimChange(log) ==
  LET oldIccid == GetEffectiveIccid(log.last)
      newIccid == GetEffectiveIccid(log.first_after)
  IN oldIccid # <<>> /\ newIccid # <<>> /\ oldIccid # newIccid

IsLowSignal(log) ==
  LET gsm == OptGsm(log.last) IN IsNum(gsm) /\ gsm.n < 10 /\ gsm.n > 0

\* hdop > 2.5 on the integer readings the model uses
HasGpsPrecisionIssue(log) ==
  LET hdop == OptHdop(log.last) IN IsNum(hdop) /\ 2 * hdop.n > 5

\* let finalDowntime = log.downtime_seconds; if (=== null && ...) diff
FinalDowntime(log) ==
  IF log.downtime_seconds = Null
     /\ Truthy(OptTs(log.last)) /\ Truthy(OptTs(log.first_after))
  THEN Num(log.first_after.ts.n - log.last.ts.n)
  ELSE log.downtime_seconds

\* v < k in JavaScript: false when v is undefined (NaN), null counts as 0
JsLess(v, k) ==
  CASE v.t = "number" -> v.n < k
    [] v.t = "null" -> 0 < k
    [] OTHER -> FALSE

\* variant: the downtime bands are consulted before the power-cut flag
RiskLevelDowntimeFirst(log) ==
  LET fd == FinalDowntime(log)
  IN IF fd # Null
     THEN IF JsLess(fd, 300) THEN "safe"
          ELSE IF JsLess(fd, 3600) THEN "warning"
          ELSE "critical"
     ELSE IF IsPowerCut(log) THEN "critical"
     ELSE "unknown"

RiskLevel(log) ==
  LET fd == FinalDowntime(log)
  IN IF IsPowerCut(log) THEN "critical"
     ELSE IF fd # Null
          THEN IF JsLess(fd, 300) THEN "safe"
               ELSE IF JsLess(fd, 3600) THEN "warning"
               ELSE "critical"
          ELSE "unknown"

\* lifespanMap.get(uniqueKey) || null
PreviousLifespan(log, map) ==
  LET v == MapGet(map, CompositeKey(log)) IN IF Truthy(v) THEN v ELSE Null

\* the record returned by the map callback; idx is the 0-based index
Enrich(log, idx, map) ==
  LET oldIccid == GetEffectiveIccid(log.last)
      newIccid == GetEffectiveIccid(log.first_after)
  IN [t |-> "object", status |-> log.status, unidad |-> log.unidad,
      unit_id |-> log.unit_id, imei_ant |-> log.imei_ant,
      imei_nuevo |-> log.imei_nuevo, cambio_ts |-> log.cambio_ts,
      cambio_time |-> log.cambio_time, last |-> log.last,
      first_after |-> log.first_after,
      downtime_seconds |-> FinalDowntime(log),
      id |-> NumToStr(log.unit_id) \o <<"-">> \o NumToStr(idx),
      derivedIccid |-> IF newIccid # <<>> THEN newIccid ELSE oldIccid,
      previousIccid |-> oldIccid,
      riskLevel |-> RiskLevel(log),
      isInstallation |-> IsInstallation(log),
      isPowerCut |-> IsPowerCut(log),
      isSimChange |-> IsSimChange(log),
      isLowSignal |-> IsLowSignal(log),
      hasGpsPrecisionIssue |-> HasGpsPrecisionIssue(log),
      previousImeiLifespanSeconds |-> PreviousLifespan(log, map)]

\* variant: the comparator is a.cambio_ts - b.cambio_ts
TsAfterAscending(a, b) == a.cambio_ts < b.cambio_ts

TsAfter(a, b) == b.cambio_ts < a.cambio_ts

\* variant: the callback ignores its index argument
EnrichedChangesOfUnindexed(filtered, map) ==
  LET mapped == [i \in 1..Len(filtered) |-> Enrich(filtered[i], 0, map)]
  IN StableSort(mapped, [i \in 1..Len(mapped) |->
                          [j \in 1..Len(mapped) |->
                             TsAfter(mapped[i], mapped[j])]])

EnrichedChangesOf(filtered, map) ==
  LET mapped == [i \in 1..Len(filtered) |-> Enrich(filtered[i], i - 1, map)]
  IN StableSort(mapped, [i \in 1..Len(mapped) |->
                          [j \in 1..Len(mapped) |->
                             TsAfter(mapped[i], mapped[j])]])

(***************************************************************************)
(* Unit History Builder: unitHistories.  failure_rate_index is a rational, *)
(* kept as a reduced fraction num/den with den > 0.                        *)
(***************************************************************************)
SecondsPerYear == 365 * 24 * 3600

RECURSIVE Gcd(_, _)
Gcd(a, b) == IF b = 0 THEN a ELSE Gcd(b, a % b)

Frac(a, b) == LET g == Gcd(a, b) IN [num |-> a \div g, den |-> b \div g]

FracLess(x, y) == x.num * y.den < y.num * x.den

\* sorted.length / Math.max(totalTime / (365*24*3600), 0.1)
ChangesPerYear(count, totalTime) ==
  IF 10 * totalTime >= SecondsPerYear
  THEN Frac(count * SecondsPerYear, totalTime)
  ELSE Frac(count * 10, 1)

HistoryIntervals(sorted) ==
  [i \in 1..(Len(sorted) - 1) |->
     [imei |-> sorted[i].imei_nuevo,
      start_ts |-> sorted[i].cambio_ts,
      start_date |-> sorted[i].cambio_time,
      end_ts |-> sorted[i + 1].cambio_ts,
      end_date |-> sorted[i + 1].cambio_time,
      duration_seconds |-> sorted[i + 1].cambio_ts - sorted[i].cambio_ts]]

\* variant: the intervals are left in chronological order
ReverseOmitted(s) == s

Reverse(s) == [i \in 1..Len(s) |-> s[Len(s) + 1 - i]]

\* variant: the span is measured from the latest event
FirstSeenLatest(sorted) == sorted[Len(sorted)].cambio_ts

FirstSeen(sorted) == sorted[1].cambio_ts

UnitHistoryOf(logs, unidad, now) ==
  LET sorted == SortedAsc(logs)
      lastEvent == sorted[Len(sorted)]
  IN [unidad |-> unidad,
      current_imei |-> lastEvent.imei_nuevo,
      current_start_date |-> lastEvent.cambio_time,
      current_duration_seconds |-> now - lastEvent.cambio_ts,
      history |-> Reverse(HistoryIntervals(sorted)),
      failure_rate_index |->
        ChangesPerYear(Len(sorted), now - FirstSeen(sorted))]

\* variant: a search also leaves out the installation events
SourceDataSwapsOnly(logs, search) ==
  IF search # <<>>
  THEN SelectSeq(logs, LAMBDA l :
         /\ Includes(ToLowerCase(l.unidad), ToLowerCase(search))
         /\ ~IsInstallation(l))
  ELSE logs

SourceData(logs, search) ==
  IF search # <<>>
  THEN SelectSeq(logs, LAMBDA l :
         Includes(ToLowerCase(l.unidad), ToLowerCase(search)))
  ELSE logs

\* variant: the comparator is a - b, shortest elapsed duration first
LongerCurrentAscending(a, b) ==
  a.current_duration_seconds < b.current_duration_seconds

LongerCurrent(a, b) == b.current_duration_seconds < a.current_duration_seconds

UnitHistoriesOf(logs, search, now) ==
  LET src == SourceData(logs, search)
      units == UnitOrder(src)
      histories == [k \in 1..Len(units) |->
                      UnitHistoryOf(GroupOf(src, units[k]), units[k], now)]
  IN StableSort(histories, [i \in 1..Len(histories) |->
                             [j \in 1..Len(histories) |->
                                LongerCurrent(histories[i], histories[j])]])

(***************************************************************************)
(* Aggregate Statistics: the stats memo of MetricsView.                    *)
(***************************************************************************)
\* variant: the comparator is a - b, lowest index first
HigherIndexAscending(a, b) ==
  FracLess(a.failure_rate_index, b.failure_rate_index)

HigherIndex(a, b) == FracLess(b.failure_rate_index, a.failure_rate_index)

\* unitHistories.sort(...): the array after the call (it is sorted in place)
SortedForLemons(histories) ==
  StableSort(histories, [i \in 1..Len(histories) |->
                          [j \in 1..Len(histories) |->
                             HigherIndex(histories[i], histories[j])]])

TopLemons == 5

Lemons(histories) ==
  SubSeq(SortedForLemons(histories), 1,
         IF Len(histories) < TopLemons THEN Len(histories) ELSE TopLemons)

\* filter(...).length, for the sequence of the test's results
CountTrue(flags) == Cardinality({i \in 1..Len(flags) : flags[i]})

NoStats == [t |-> "unmounted"]

\* l.downtime_seconds !== null && l.downtime_seconds > 0 (undefined > 0 is
\* false)
HasDowntime(l) == IsNum(l.downtime_seconds) /\ l.downtime_seconds.n > 0

WithDowntime(logs) == SelectSeq(logs, HasDowntime)

\* variant: the sample is left in the order of the events
DowntimesUnsorted(logs) ==
  LET w == WithDowntime(logs)
  IN [i \in 1..Len(w) |-> w[i].downtime_seconds.n]

\* withDowntime.map(l => l.downtime_seconds).sort((a, b) => a - b)
Downtimes(logs) ==
  LET w == WithDowntime(logs)
      d == [i \in 1..Len(w) |-> w[i].downtime_seconds.n]
  IN StableSort(d, [i \in 1..Len(d) |-> [j \in 1..Len(d) |-> d[i] < d[j]]])

\* downtimes[Math.floor(downtimes.length * tenths / 10)] || 0
Percentile(downtimes, tenths) ==
  LET k == (Len(downtimes) * tenths) \div 10
  IN IF k + 1 \in 1..Len(downtimes) THEN downtimes[k + 1] ELSE 0

\* variant: a downtime of exactly 300 s is still counted as under 5 minutes
BucketOfInclusive(s) ==
  IF s <= 300 THEN "under5m"
  ELSE IF s < 3600 THEN "under1h"
  ELSE IF s < 86400 THEN "under24h"
  ELSE "over24h"

\* the counter the forEach body increments for a downtime of s seconds
BucketOf(s) ==
  IF s < 300 THEN "under5m"
  ELSE IF s < 3600 THEN "under1h"
  ELSE IF s < 86400 THEN "under24h"
  ELSE "over24h"

BucketNames == {"under5m", "under1h", "under24h", "over24h"}

Buckets(logs) ==
  LET w == WithDowntime(logs)
  IN [b \in BucketNames |->
        Cardinality({i \in 1..Len(w) : BucketOf(w[i].downtime_seconds.n) = b})]

RECURSIVE SumDowntime(_, _)
SumDowntime(w, u) ==
  IF w = <<>> THEN 0
  ELSE (IF Head(w).unidad = u THEN Head(w).downtime_seconds.n ELSE 0)
       + SumDowntime(Tail(w), u)

TopUnitsShown == 10

\* Array.from(unitDowntimeMap.entries()).sort((a, b) => b[1] - a[1])
\*   .slice(0, 10)
TopUnits(logs) ==
  LET w == WithDowntime(logs)
      units == UnitOrder(w)
      entries == [k \in 1..Len(units) |->
                    [unidad |-> units[k], total |-> SumDowntime(w, units[k])]]
      sorted == StableSort(entries,
                  [i \in 1..Len(entries) |->
                     [j \in 1..Len(entries) |->
                        entries[j].total < entries[i].total]])
  IN SubSeq(sorted, 1,
            IF Len(sorted) < TopUnitsShown THEN Len(sorted) ELSE TopUnitsShown)

\* the value returned by the stats memo, for the array as it is after the
\* in-place sort
StatsOf(logs, histories) ==
  [t |-> "stats",
   totalEvents |-> Len(logs),
   eventsWithDowntime |-> Len(WithDowntime(logs)),
   p50 |-> Percentile(Downtimes(logs), 5),
   p90 |-> Percentile(Downtimes(logs), 9),
   buckets |-> Buckets(logs),
   topUnits |-> TopUnits(logs),
   powerCuts |-> CountTrue([i \in 1..Len(logs) |-> logs[i].isPowerCut]),
   simChanges |-> CountTrue([i \in 1..Len(logs) |-> logs[i].isSimChange]),
   lemons |-> Lemons(histories)]

(***************************************************************************)
(* State machine.  Every action is a handler followed by the render it     *)
(* triggers: the useMemo values whose dependencies changed are recomputed, *)
(* and MetricsView, mounted only on the metrics tab, recomputes its stats  *)
(* when it mounts or when one of its props is a new array.                 *)
(***************************************************************************)
DefaultFilters ==
  [search |-> <<>>, dateFrom |-> "", dateTo |-> "",
   minDowntime |-> NoBound, maxDowntime |-> NoBound,
   onlyWithDowntime |-> FALSE, hideInstallations |-> FALSE,
   onlyMultipleChanges |-> FALSE, onlyPowerCuts |-> FALSE]

Tabs == {"changes", "lifespan", "map", "metrics"}

\* what the stats variable holds once a render has thrown
RenderError == [t |-> "TypeError"]

Mounted == stats # RenderError

\* an exception raised while rendering is not caught by any component, so
\* React unmounts the tree: no structure is displayed any more
Unmount ==
  /\ lifespanMap' = LifespanMapOf(<<>>)
  /\ unitChangeCounts' = UnitChangeCountsOf(<<>>)
  /\ filteredLogs' = <<>>
  /\ enrichedChanges' = <<>>
  /\ unitHistories' = <<>>
  /\ nowTs' = nowTs
  /\ stats' = RenderError

\* variant: the histories are rebuilt from the filtered events at every
\* recomputation of filteredLogs
RenderHistoriesOfFiltered(rd, f, tab, now, newRaw, newHist, newLogs) ==
  LET counts == IF newRaw THEN UnitChangeCountsOf(rd) ELSE unitChangeCounts
      map == IF newRaw THEN LifespanMapOf(rd) ELSE lifespanMap
      filtered == IF newLogs THEN FilteredLogsOf(rd, f, counts)
                  ELSE filteredLogs
      enriched == IF newLogs THEN EnrichedChangesOf(filtered, map)
                  ELSE enrichedChanges
      hist == IF newLogs THEN UnitHistoriesOf(filtered, f.search, now)
              ELSE unitHistories
      statsRun == tab = "metrics"
                  /\ (activeTab # "metrics" \/ newHist \/ newLogs)
  IN IF (newLogs \/ newHist) /\ SearchThrows(rd, f.search) THEN Unmount
     ELSE
     /\ lifespanMap' = map
     /\ unitChangeCounts' = counts
     /\ filteredLogs' = filtered
     /\ enrichedChanges' = enriched
     /\ nowTs' = IF newHist THEN now ELSE nowTs
     /\ unitHistories' = IF statsRun THEN SortedForLemons(hist) ELSE hist
     /\ stats' = IF tab # "metrics" THEN NoStats
                 ELSE IF statsRun THEN StatsOf(enriched, hist)
                 ELSE stats

\* variant: the lifespan lookup is built from the filtered events
RenderLifespanOfFiltered(rd, f, tab, now, newRaw, newHist, newLogs) ==
  LET counts == IF newRaw THEN UnitChangeCountsOf(rd) ELSE unitChangeCounts
      filtered == IF newLogs THEN FilteredLogsOf(rd, f, counts)
                  ELSE filteredLogs
      map == IF newLogs THEN LifespanMapOf(filtered) ELSE lifespanMap
      enriched == IF newLogs THEN EnrichedChangesOf(filtered, map)
                  ELSE enrichedChanges
      hist == IF newHist THEN UnitHistoriesOf(rd, f.search, now)
              ELSE unitHistories
      statsRun == tab = "metrics"
                  /\ (activeTab # "metrics" \/ newHist \/ newLogs)
  IN IF (newLogs \/ newHist) /\ SearchThrows(rd, f.search) THEN Unmount
     ELSE
     /\ lifespanMap' = map
     /\ unitChangeCounts' = counts
     /\ filteredLogs' = filtered
     /\ enrichedChanges' = enriched
     /\ nowTs' = IF newHist THEN now ELSE nowTs
     /\ unitHistories' = IF statsRun THEN SortedForLemons(hist) ELSE hist
     /\ stats' = IF tab # "metrics" THEN NoStats
                 ELSE IF statsRun THEN StatsOf(enriched, hist)
                 ELSE stats

\* rd, f, tab: the new rawData, filters and activeTab; now: the clock
\* reading of this render.  A memo is recomputed when one of its
\* dependencies is a new value and keeps its value otherwise: newRaw for
\* lifespanMap and unitChangeCounts ([rawData]), newHist for unitHistories
\* ([rawData, filters.search]), newLogs for filteredLogs ([rawData, filters,
\* unitChangeCounts]) and hence enrichedChanges ([filteredLogs,
\* lifespanMap]).
Render(rd, f, tab, now, newRaw, newHist, newLogs) ==
  LET counts == IF newRaw THEN UnitChangeCountsOf(rd) ELSE unitChangeCounts
      map == IF newRaw THEN LifespanMapOf(rd) ELSE lifespanMap
      filtered == IF newLogs THEN FilteredLogsOf(rd, f, counts)
                  ELSE filteredLogs
      enriched == IF newLogs THEN EnrichedChangesOf(filtered, map)
                  ELSE enrichedChanges
      hist == IF newHist THEN UnitHistoriesOf(rd, f.search, now)
              ELSE unitHistories
      statsRun == tab = "metrics"
                  /\ (activeTab # "metrics" \/ newHist \/ newLogs)
  IN IF (newLogs \/ newHist) /\ SearchThrows(rd, f.search) THEN Unmount
     ELSE
     /\ lifespanMap' = map
     /\ unitChangeCounts' = counts
     /\ filteredLogs' = filtered
     /\ enrichedChanges' = enriched
     /\ nowTs' = IF newHist THEN now ELSE nowTs
     /\ unitHistories' = IF statsRun THEN SortedForLemons(hist) ELSE hist
     /\ stats' = IF tab # "metrics" THEN NoStats
                 ELSE IF statsRun THEN StatsOf(enriched, hist)
                 ELSE stats

InitWith(f, now) ==
  /\ text = <<>>
  /\ loading = FALSE
  /\ rawData = <<>>
  /\ errorCount = 0
  /\ filters = f
  /\ activeTab = "changes"
  /\ nowTs = now
  /\ lifespanMap = LifespanMapOf(<<>>)
  /\ unitChangeCounts = UnitChangeCountsOf(<<>>)
  /\ filteredLogs = <<>>
  /\ enrichedChanges = <<>>
  /\ unitHistories = <<>>
  /\ stats = NoStats

\* handleFileUpload: a file was chosen and a FileReader started
HandleFileUpload ==
  /\ Mounted
  /\ ~loading
  /\ loading' = TRUE
  /\ UNCHANGED <<text, rawData, errorCount, filters, activeTab, nowTs,
                 lifespanMap, unitChangeCounts, filteredLogs,
                 enrichedChanges, unitHistories, stats>>

\* variant: the chronological sort is applied to the raw array itself
ProcessNdjsonSortsRaw(lines, now) ==
  /\ Mounted
  /\ loading
  /\ now >= nowTs
  /\ text' = lines
  /\ rawData' = SortedAsc(ParsedLogs(lines))
  /\ errorCount' = ParsedErrors(lines)
  /\ loading' = FALSE
  /\ UNCHANGED <<filters, activeTab>>
  /\ Render(SortedAsc(ParsedLogs(lines)), filters, activeTab, now,
            TRUE, TRUE, TRUE)

\* variant: the batch is added to what an earlier batch left
ProcessNdjsonAppends(lines, now) ==
  /\ Mounted
  /\ loading
  /\ now >= nowTs
  /\ text' = lines
  /\ rawData' = rawData \o ParsedLogs(lines)
  /\ errorCount' = errorCount + ParsedErrors(lines)
  /\ loading' = FALSE
  /\ UNCHANGED <<filters, activeTab>>
  /\ Render(rawData \o ParsedLogs(lines), filters, activeTab, now,
            TRUE, TRUE, TRUE)

\* reader.onload -> processNdjson(text), with lines = text.split('\n')
ProcessNdjson(lines, now) ==
  /\ Mounted
  /\ loading
  /\ now >= nowTs
  /\ text' = lines
  /\ rawData' = ParsedLogs(lines)
  /\ errorCount' = ParsedErrors(lines)
  /\ loading' = FALSE
  /\ UNCHANGED <<filters, activeTab>>
  /\ Render(ParsedLogs(lines), filters, activeTab, now, TRUE, TRUE, TRUE)

\* variant: the histories are not rebuilt when the search changes
SetFiltersKeepHistories(f, now) ==
  /\ Mounted
  /\ f # filters
  /\ now >= nowTs
  /\ filters' = f
  /\ UNCHANGED <<text, loading, rawData, errorCount, activeTab>>
  /\ Render(rawData, f, activeTab, now, FALSE, FALSE, TRUE)

SetFilters(f, now) ==
  /\ Mounted
  /\ f # filters
  /\ now >= nowTs
  /\ filters' = f
  /\ UNCHANGED <<text, loading, rawData, errorCount, activeTab>>
  /\ Render(rawData, f, activeTab, now, FALSE, f.search # filters.search, TRUE)

SetSearch(v, now) == SetFilters([filters EXCEPT !.search = v], now)

SetHideInstallations ==
  SetFilters([filters EXCEPT !.hideInstallations = ~@], nowTs)

SetOnlyMultipleChanges ==
  SetFilters([filters EXCEPT !.onlyMultipleChanges = ~@], nowTs)

SetOnlyPowerCuts ==
  SetFilters([filters EXCEPT !.onlyPowerCuts = ~@], nowTs)

SetDateFrom(v) == SetFilters([filters EXCEPT !.dateFrom = v], nowTs)

SetDateTo(v) == SetFilters([filters EXCEPT !.dateTo = v], nowTs)

SetActiveTab(tab) ==
  /\ Mounted
  /\ tab # activeTab
  /\ activeTab' = tab
  /\ UNCHANGED <<text, loading, rawData, errorCount, filters>>
  /\ Render(rawData, filters, tab, nowTs, FALSE, FALSE, FALSE)

(***************************************************************************)
(* Bounded inputs.                                                         *)
(***************************************************************************)
\* lines per uploaded text
MaxLines == 2

\* lines per uploaded text where a unit needs several events next to another
MaxEvents == 3

Texts(lines, n) == UNION {[1..k -> lines] : k \in 0..n}

U1 == <<"U", "1">>

U2 == <<"U", "2">>

ImeiA == <<"A">>

ImeiB == <<"B">>

Day1 == "2024-01-01 00:00:00"

\* an accepted swap event without telemetry and with a null downtime
Ev(u, ts, nuevo) ==
  ImeiLog(OkStatus, u, IF u = U1 THEN 1 ELSE 2, Str(ImeiA), nuevo, ts, Day1,
          Undefined, Undefined, Null)

\* clock readings: shortly after the events, and a year after the first
EarlyClock == 3000

LateClock == 1000 + SecondsPerYear

(***************************************************************************)
(* Spec: the application fed with lines of every kind the parser           *)
(* distinguishes.                                                          *)
(***************************************************************************)
ParserLines ==
  { Line(<<" ", "\r">>, SyntaxError),
    Line(<<"x">>, SyntaxError),
    JsonLine(Null),
    JsonLine([Ev(U1, 5000, ImeiB) EXCEPT !.status = Str(<<"e", "r", "r">>)]),
    JsonLine([Ev(U1, 9000, ImeiA) EXCEPT !.status = Undefined]),
    JsonLine(Ev(U1, 1000, ImeiA)) }

Init == InitWith(DefaultFilters, EarlyClock)

Next ==
  \/ HandleFileUpload
  \/ \E lines \in Texts(ParserLines, MaxLines) :
       ProcessNdjson(lines, EarlyClock)
  \/ SetOnlyMultipleChanges
  \/ \E tab \in Tabs : SetActiveTab(tab)

Spec == Init /\ [][Next]_vars

(***************************************************************************)
(* SpecFilter: units with one or several events, installations and swaps,  *)
(* under the installation and multiple-change predicates.                  *)
(***************************************************************************)
FilterLines ==
  { JsonLine([Ev(U1, 1000, ImeiA) EXCEPT !.imei_ant = Str(<<>>)]),
    JsonLine(Ev(U1, 5000, ImeiB)),
    JsonLine(Ev(U2, 5000, ImeiB)) }

NextFilter ==
  \/ HandleFileUpload
  \/ \E lines \in Texts(FilterLines, MaxEvents) :
       ProcessNdjson(lines, EarlyClock)
  \/ SetHideInstallations
  \/ SetOnlyMultipleChanges

SpecFilter == Init /\ [][NextFilter]_vars

(***************************************************************************)
(* SpecDowntime: events whose downtime is reported, null or absent, with   *)
(* and without signal timestamps, under a filter configuration supplied    *)
(* by the host (the downtime options have no control in the toolbar).      *)
(***************************************************************************)
EvDowntime(dt, last, fa) ==
  [Ev(U1, 1000, ImeiA) EXCEPT !.downtime_seconds = dt, !.last = last,
                              !.first_after = fa]

DowntimeLines ==
  { JsonLine(EvDowntime(Null, Tel(Num(1000), Undefined),
                        Tel(Num(1900), Undefined))),
    JsonLine(EvDowntime(Undefined, Tel(Num(1000), Undefined),
                        Tel(Num(1900), Undefined))),
    JsonLine(EvDowntime(Null, Undefined, Undefined)),
    JsonLine(EvDowntime(Undefined, Undefined, Undefined)),
    JsonLine(EvDowntime(Num(100), Tel(Num(1000), Undefined),
                        Tel(Num(1900), Undefined))) }

DowntimeConfigs ==
  { [DefaultFilters EXCEPT !.minDowntime = lo, !.maxDowntime = hi,
                           !.onlyWithDowntime = b] :
      lo \in {NoBound, Num(100)}, hi \in {NoBound, Num(500)},
      b \in BOOLEAN }

InitDowntime == \E f \in DowntimeConfigs : InitWith(f, EarlyClock)

NextDowntime ==
  \/ HandleFileUpload
  \/ \E lines \in Texts(DowntimeLines, MaxLines) :
       ProcessNdjson(lines, EarlyClock)

SpecDowntime == InitDowntime /\ [][NextDowntime]_vars

(***************************************************************************)
(* SpecEnrich: external voltages around the power-cut band combined with   *)
(* short, long and unknown downtimes.                                      *)
(***************************************************************************)
EvPower(pwr, dt) ==
  [Ev(U1, 1000, ImeiA) EXCEPT !.downtime_seconds = dt,
                              !.last = Tel(Undefined, Num(pwr))]

PowerLines ==
  { JsonLine(EvPower(3, Num(10000))),
    JsonLine(EvPower(3, Num(100))),
    JsonLine(EvPower(0, Null)),
    JsonLine(EvPower(0 - 1, Num(100))),
    JsonLine(EvPower(5, Num(900))) }

NextEnrich ==
  \/ HandleFileUpload
  \/ \E lines \in Texts(PowerLines, MaxLines) :
       ProcessNdjson(lines, EarlyClock)
  \/ SetOnlyPowerCuts

SpecEnrich == Init /\ [][NextEnrich]_vars

(***************************************************************************)
(* SpecHistory: two units, repeated and distinct swap times, a clock       *)
(* reading before the latest swap and one a year after the first, and the  *)
(* tabs that show the histories and the metrics.                           *)
(***************************************************************************)
HistoryLines ==
  { JsonLine(Ev(U1, 1000, ImeiA)),
    JsonLine(Ev(U1, 5000, ImeiB)),
    JsonLine(Ev(U2, 5000, ImeiB)) }

Clocks == {EarlyClock, LateClock}

NextHistory ==
  \/ HandleFileUpload
  \/ \E lines \in Texts(HistoryLines, MaxLines), now \in Clocks :
       ProcessNdjson(lines, now)
  \/ \E tab \in {"lifespan", "metrics"} : SetActiveTab(tab)

SpecHistory == Init /\ [][NextHistory]_vars

(***************************************************************************)
(* SpecMetrics: downtimes at the edges of the distribution ranges,         *)
(* reported, computed from the signals, zero and absent, with the metrics  *)
(* tab opened and closed.                                                  *)
(***************************************************************************)
EvDt(dt) == [Ev(U1, 1000, ImeiA) EXCEPT !.downtime_seconds = dt]

MetricsLines ==
  { JsonLine(EvDt(Undefined)),
    JsonLine(EvDt(Num(0))),
    JsonLine([EvDt(Null) EXCEPT !.last = Tel(Num(1000), Undefined),
                                !.first_after = Tel(Num(1299), Undefined)]),
    JsonLine(EvDt(Num(300))),
    JsonLine(EvDt(Num(3600))),
    JsonLine(EvDt(Num(86400))) }

NextMetrics ==
  \/ HandleFileUpload
  \/ \E lines \in Texts(MetricsLines, MaxLines) :
       ProcessNdjson(lines, EarlyClock)
  \/ \E tab \in {"changes", "metrics"} : SetActiveTab(tab)

SpecMetrics == Init /\ [][NextMetrics]_vars

(***************************************************************************)
(* SpecSearch: the search box next to the installation and multiple-change *)
(* options, two units, two clock readings and the metrics tab.             *)
(***************************************************************************)
SearchValues == {<<>>, <<"u", "1">>}

NextSearch ==
  \/ HandleFileUpload
  \/ \E lines \in Texts(FilterLines, MaxLines) :
       ProcessNdjson(lines, EarlyClock)
  \/ \E v \in SearchValues, now \in Clocks : SetSearch(v, now)
  \/ SetHideInstallations
  \/ SetOnlyMultipleChanges
  \/ \E tab \in {"changes", "metrics"} : SetActiveTab(tab)

SpecSearch == Init /\ [][NextSearch]_vars

(***************************************************************************)
(* SpecDerive: batch loads and filter changes, in any order, seen from the *)
(* tabs that show the events and the histories.                            *)
(***************************************************************************)
NextDerive ==
  \/ HandleFileUpload
  \/ \E lines \in Texts(FilterLines, MaxLines) :
       ProcessNdjson(lines, EarlyClock)
  \/ \E v \in SearchValues, now \in Clocks : SetSearch(v, now)
  \/ SetHideInstallations
  \/ SetOnlyMultipleChanges
  \/ \E tab \in {"changes", "lifespan"} : SetActiveTab(tab)

SpecDerive == Init /\ [][NextDerive]_vars

(***************************************************************************)
(* SpecFatal: accepted records that lack telemetry or the unit name, next  *)
(* to undecodable lines, with the search box and the installation option.  *)
(***************************************************************************)
FatalLines ==
  { Line(<<"x">>, SyntaxError),
    JsonLine(Ev(U1, 1000, ImeiA)),
    JsonLine([Ev(U1, 5000, ImeiB) EXCEPT !.imei_ant = Undefined]),
    JsonLine([Ev(U2, 5000, ImeiB) EXCEPT !.unidad = NoUnidad]) }

NextFatal ==
  \/ HandleFileUpload
  \/ \E lines \in Texts(FatalLines, MaxLines) :
       ProcessNdjson(lines, EarlyClock)
  \/ \E v \in SearchValues : SetSearch(v, EarlyClock)
  \/ SetHideInstallations
  \/ \E tab \in {"changes", "metrics"} : SetActiveTab(tab)

SpecFatal == Init /\ [][NextFatal]_vars

(***************************************************************************)
(* SpecCompose: every filter option, alone and together.  The downtime     *)
(* options come with the configuration the host supplies, the others from  *)
(* the toolbar.                                                            *)
(***************************************************************************)
Day150 == "2024-06-01 00:00:00"

Day60 == "2024-03-01T00:00"

ComposeLines ==
  { JsonLine([Ev(U1, 1000, ImeiA) EXCEPT !.imei_ant = Str(<<>>),
                                         !.last = Tel(Undefined, Num(3))]),
    JsonLine([Ev(U1, 5000, ImeiB) EXCEPT !.cambio_time = Day150,
                                         !.downtime_seconds = Num(900)]) }

ComposeConfigs ==
  { DefaultFilters,
    [DefaultFilters EXCEPT !.minDowntime = Num(100),
                           !.maxDowntime = Num(500)],
    [DefaultFilters EXCEPT !.onlyWithDowntime = TRUE] }

InitCompose == \E f \in ComposeConfigs : InitWith(f, EarlyClock)

NextCompose ==
  \/ HandleFileUpload
  \/ \E lines \in Texts(ComposeLines, MaxLines) :
       ProcessNdjson(lines, EarlyClock)
  \/ \E v \in SearchValues : SetSearch(v, EarlyClock)
  \/ \E v \in {"", Day60} : SetDateFrom(v)
  \/ \E v \in {"", Day60} : SetDateTo(v)
  \/ SetHideInstallations
  \/ SetOnlyMultipleChanges
  \/ SetOnlyPowerCuts

SpecCompose == InitCompose /\ [][NextCompose]_vars

(***************************************************************************)
(* SpecIntervals: one unit with up to several swaps, loaded in any order,  *)
(* one of them 100 s before the clock reading.                             *)
(***************************************************************************)
IntervalLines ==
  { JsonLine(Ev(U1, 1000, ImeiA)),
    JsonLine(Ev(U1, EarlyClock - 100, ImeiB)),
    JsonLine(Ev(U1, 5000, ImeiA)) }

NextIntervals ==
  \/ HandleFileUpload
  \/ \E lines \in Texts(IntervalLines, MaxEvents) :
       ProcessNdjson(lines, EarlyClock)
  \/ \E tab \in {"changes", "lifespan"} : SetActiveTab(tab)

SpecIntervals == Init /\ [][NextIntervals]_vars

(***************************************************************************)
(* SpecSim: readings that carry a direct SIM identifier, the all-zero      *)
(* placeholder with fragments, fragments of which one is 0, or nothing.    *)
(***************************************************************************)
Sim89 ==
  Telemetry(Undefined, Undefined, Str(<<"8", "9">>), Undefined, Undefined,
            Undefined, Undefined)

SimFragments ==
  Telemetry(Undefined, Undefined, Str(ZeroIccid), Num(1), Num(2),
            Undefined, Undefined)

SimZeroFragment ==
  Telemetry(Undefined, Undefined, Undefined, Num(0), Num(7),
            Undefined, Undefined)

EvSim(last, fa) ==
  [Ev(U1, 1000, ImeiA) EXCEPT !.last = last, !.first_after = fa]

SimLines ==
  { JsonLine(EvSim(Sim89, Sim89)),
    JsonLine(EvSim(Sim89, SimFragments)),
    JsonLine(EvSim(SimZeroFragment, Sim89)),
    JsonLine(EvSim(Undefined, Sim89)),
    JsonLine(EvSim(SimFragments, SimFragments)) }

NextSim ==
  \/ HandleFileUpload
  \/ \E lines \in Texts(SimLines, MaxLines) :
       ProcessNdjson(lines, EarlyClock)
  \/ \E tab \in {"changes", "metrics"} : SetActiveTab(tab)

SpecSim == Init /\ [][NextSim]_vars

(***************************************************************************)
(* SpecFleet: more units than the lemon list holds, one swap each, first   *)
(* seen a year, a half, a third ... of a year before the clock reading, so *)
(* that no two units have the same failure-rate index.                     *)
(***************************************************************************)
\* units in the fleet
FleetSize == 6

\* unit i was first seen a year divided by SpanDivisor(i) before LateClock
SpanDivisor(i) ==
  CASE i = 1 -> 1 [] i = 2 -> 6 [] i = 3 -> 2 [] i = 4 -> 8
    [] i = 5 -> 3 [] i = 6 -> 5 [] OTHER -> 4

FleetLine(i) ==
  JsonLine([Ev(<<"U", DigitChar(i)>>,
               LateClock - (SecondsPerYear \div SpanDivisor(i)), ImeiA)
              EXCEPT !.unit_id = i])

\* a batch holds one line for each unit of a part of the fleet
FleetTexts ==
  { [k \in 1..Cardinality(S) |-> FleetLine(IdxSeq(S)[k])] :
      S \in SUBSET (1..FleetSize) }

NextFleet ==
  \/ HandleFileUpload
  \/ \E lines \in FleetTexts : ProcessNdjson(lines, LateClock)
  \/ \E tab \in {"changes", "metrics"} : SetActiveTab(tab)

SpecFleet == Init /\ [][NextFleet]_vars

(***************************************************************************)
(* SpecPercentile: samples of up to MaxEvents downtimes, with repeated     *)
(* values and with a zero downtime that stays out of the sample.           *)
(***************************************************************************)
PercentileLines ==
  { JsonLine(EvDt(Num(0))),
    JsonLine(EvDt(Num(300))),
    JsonLine(EvDt(Num(3600))) }

NextPercentile ==
  \/ HandleFileUpload
  \/ \E lines \in Texts(PercentileLines, MaxEvents) :
       ProcessNdjson(lines, EarlyClock)
  \/ \E tab \in {"changes", "metrics"} : SetActiveTab(tab)

SpecPercentile == Init /\ [][NextPercentile]_vars

(***************************************************************************)
(* SpecLoad: one batch after another, each with accepted, rejected and     *)
(* blank lines.                                                            *)
(***************************************************************************)
LoadLines ==
  { Line(<<" ", "\r">>, SyntaxError),
    Line(<<"x">>, SyntaxError),
    JsonLine([Ev(U1, 5000, ImeiB) EXCEPT !.status = Str(<<"e", "r", "r">>)]),
    JsonLine(Ev(U1, 1000, ImeiA)),
    JsonLine(Ev(U2, 5000, ImeiB)) }

NextLoad ==
  \/ HandleFileUpload
  \/ \E lines \in Texts(LoadLines, MaxLines) :
       ProcessNdjson(lines, EarlyClock)
  \/ \E tab \in {"changes", "metrics"} : SetActiveTab(tab)

SpecLoad == Init /\ [][NextLoad]_vars

(***************************************************************************)
(* Properties.                                                             *)
(***************************************************************************)
NonBlank(line) == Trim(line.chars) # <<>>

\* the line decodes as structured data and its status is "ok"
IsOkRecord(line) ==
  /\ NonBlank(line)
  /\ line.value.t = "object"
  /\ line.value.status = OkStatus

OkRecords(lines) ==
  LET ok == SelectSeq(lines, IsOkRecord)
  IN [i \in 1..Len(ok) |-> ok[i].value]

\* C1 - Parser totality: after processNdjson the accepted events plus the
\* error count equal the number of non-blank lines; the accepted events are
\* exactly the lines that decode with status "ok", in order, and every other
\* non-blank line adds exactly 1 to the error count.
C1_ParserTotality ==
  /\ Len(rawData) + errorCount = Len(SelectSeq(text, NonBlank))
  /\ rawData = OkRecords(text)
  /\ errorCount = Len(SelectSeq(text, LAMBDA l : NonBlank(l) /\ ~IsOkRecord(l)))

\* a batch with one accepted line and one line of another status
C1_Witness ==
  /\ Len(text) = 2
  /\ \E i \in 1..2 : text[i].value.t = "object"
                     /\ text[i].value.status = Str(<<"e", "r", "r">>)
  /\ Len(rawData) = 1
  /\ errorCount = 1

OkLinesOf(u) ==
  Len(SelectSeq(text, LAMBDA l : IsOkRecord(l) /\ l.value.unidad = u))

FirstOkTs(u) ==
  LET ts == {text[i].value.cambio_ts : i \in
               {j \in 1..Len(text) :
                  IsOkRecord(text[j]) /\ text[j].value.unidad = u}}
  IN CHOOSE x \in ts : \A y \in ts : x <= y

AllOk(logs) == \A i \in 1..Len(logs) : logs[i].status = OkStatus

\* C8 - An event whose status is not "ok" appears in no downstream
\* structure (raw collection, lifespan map, filtered and enriched events,
\* unit histories, aggregates) and does not count toward a unit's event
\* count for only_multiple_changes or failure_rate_index; it only adds 1 to
\* the error count.
C8_RejectedExcluded ==
  /\ AllOk(rawData) /\ AllOk(filteredLogs) /\ AllOk(enrichedChanges)
  /\ \A u \in DOMAIN unitChangeCounts : unitChangeCounts[u] = OkLinesOf(u)
  /\ DOMAIN lifespanMap \subseteq
       {CompositeKey(OkRecords(text)[i]) : i \in 1..Len(OkRecords(text))}
  /\ \A k \in 1..Len(unitHistories) :
       LET h == unitHistories[k]
       IN /\ Len(h.history) + 1 = OkLinesOf(h.unidad)
          /\ h.failure_rate_index =
               ChangesPerYear(OkLinesOf(h.unidad), nowTs - FirstOkTs(h.unidad))
  /\ filters.onlyMultipleChanges =>
       \A i \in 1..Len(filteredLogs) : OkLinesOf(filteredLogs[i].unidad) > 1
  /\ stats # NoStats =>
       /\ stats.totalEvents = Len(enrichedChanges)
       /\ \A k \in 1..Len(stats.lemons) :
            Len(stats.lemons[k].history) + 1 = OkLinesOf(stats.lemons[k].unidad)
  /\ errorCount = Len(SelectSeq(text, NonBlank)) - Len(OkRecords(text))

\* a unit with one accepted and one rejected line, the multiple-change
\* filter on and the metrics shown: the rejected line is only counted
C8_Witness ==
  /\ Len(text) = 2
  /\ IsOkRecord(text[1])
  /\ text[2].value.t = "object" /\ text[2].value.status # OkStatus
  /\ text[2].value.unidad = text[1].value.unidad
  /\ filters.onlyMultipleChanges
  /\ stats # NoStats
  /\ Len(unitHistories) = 1
  /\ filteredLogs = <<>>
  /\ errorCount = 1

\* the Filter Engine as a function of a collection and a configuration
FilterEngine(logs, f) == FilteredLogsOf(logs, f, UnitChangeCountsOf(logs))

\* C2 - Filter idempotence (as claimed): applying the Filter Engine to its
\* own output with the same configuration yields the same collection, for
\* every configuration.
C2_Idempotent == FilterEngine(filteredLogs, filters) = filteredLogs

\* C2 - Filter idempotence (amended): the output is a fixed point of the
\* filter predicates evaluated with the unit counts of the original raw
\* collection, and of the whole Filter Engine whenever
\* only_multiple_changes is off.
C2_IdempotentAmended ==
  /\ FilteredLogsOf(filteredLogs, filters, unitChangeCounts) = filteredLogs
  /\ ~filters.onlyMultipleChanges =>
       FilterEngine(filteredLogs, filters) = filteredLogs

\* a filter that removed some, but not all, events of the collection
C2_Witness ==
  /\ filters.hideInstallations
  /\ ~filters.onlyMultipleChanges
  /\ filteredLogs # <<>>
  /\ Len(filteredLogs) < Len(rawData)

RawCount(u) == Cardinality({i \in 1..Len(rawData) : rawData[i].unidad = u})

\* C9 - With only_multiple_changes on, an event passes that predicate iff
\* its unit has more than one event in the full raw collection: the output
\* is what the other predicates keep, restricted to the units with more
\* than one raw event, however few of a unit's events the others keep.
C9_MultipleChanges ==
  filters.onlyMultipleChanges =>
    filteredLogs =
      SelectSeq(FilteredLogsOf(rawData,
                               [filters EXCEPT !.onlyMultipleChanges = FALSE],
                               unitChangeCounts),
                LAMBDA l : RawCount(l.unidad) > 1)

\* a unit with several raw events of which the other predicates keep one,
\* next to a unit with a single raw event, which is excluded
C9_Witness ==
  /\ filters.onlyMultipleChanges
  /\ filters.hideInstallations
  /\ Len(rawData) = 3
  /\ RawCount(U1) = 2
  /\ RawCount(U2) = 1
  /\ Len(filteredLogs) = 1
  /\ filteredLogs[1].unidad = U1

EnrichedFor(i) ==
  CHOOSE e \in SeqToSet(enrichedChanges) :
    e.id = NumToStr(filteredLogs[i].unit_id) \o <<"-">> \o NumToStr(i - 1)

\* C5 - The downtime attached to each enriched event is the effective
\* downtime the Filter Engine computes for that event, for present, null
\* and absent downtime_seconds alike.
C5_SameDowntime ==
  \A i \in 1..Len(filteredLogs) :
    EnrichedFor(i).downtime_seconds = EffectiveDowntime(filteredLogs[i])

\* the filter predicates without the min_downtime and max_downtime bounds
NoBounds(f) == [f EXCEPT !.minDowntime = NoBound, !.maxDowntime = NoBound]

\* C6 - When only_with_downtime is off, an event whose effective downtime
\* is unknown is never excluded by the min_downtime or max_downtime bounds.
C6_UnknownNotBounded ==
  ~filters.onlyWithDowntime =>
    \A i \in 1..Len(rawData) :
      (/\ EffectiveDowntime(rawData[i]) = Null
       /\ KeepLog(rawData[i], NoBounds(filters), unitChangeCounts))
      => rawData[i] \in SeqToSet(filteredLogs)

UnitsOf(logs) == {logs[i].unidad : i \in 1..Len(logs)}

\* C4 - Lifespan consistency: for every unit with events e0..en in
\* ascending change_timestamp order, the map holds e(i).ts - e(i-1).ts under
\* the key of each e(i), i >= 1, and nothing under the key of e0.
C4_LifespanConsistency ==
  \A u \in UnitsOf(rawData) :
    LET e == SortedAsc(GroupOf(rawData, u))
    IN /\ \A i \in 2..Len(e) :
            MapGet(lifespanMap, CompositeKey(e[i]))
              = Num(e[i].cambio_ts - e[i - 1].cambio_ts)
       /\ CompositeKey(e[1]) \notin DOMAIN lifespanMap

\* C7 - Aggregate Statistics is read-only: once the aggregates have run,
\* the UnitHistory collection holds the same elements in the same order as
\* the Unit History Builder produced, sorted descending by current elapsed
\* duration.
C7_StatsReadOnly ==
  stats # NoStats =>
    /\ unitHistories = UnitHistoriesOf(rawData, filters.search, nowTs)
    /\ \A k \in 1..(Len(unitHistories) - 1) :
         unitHistories[k].current_duration_seconds
           >= unitHistories[k + 1].current_duration_seconds

FirstRawTs(u) ==
  LET ts == {rawData[i].cambio_ts : i \in
               {j \in 1..Len(rawData) : rawData[j].unidad = u}}
  IN CHOOSE x \in ts : \A y \in ts : x <= y

\* C10 - failure_rate_index of every unit equals
\* event_count / max((now - first_event_timestamp) / seconds_per_year, 0.1):
\* it is defined, at most event_count * 10, and event_count / 0.1 for a
\* single event whose span is below 0.1 year.
C10_FailureRate ==
  \A k \in 1..Len(unitHistories) :
    LET h == unitHistories[k]
        n == RawCount(h.unidad)
        span == nowTs - FirstRawTs(h.unidad)
        idx == h.failure_rate_index
    IN /\ idx.den > 0
       /\ 10 * span >= SecondsPerYear => idx = Frac(n * SecondsPerYear, span)
       /\ 10 * span < SecondsPerYear => idx = Frac(n * 10, 1)
       /\ idx.num <= n * 10 * idx.den
       /\ (n = 1 /\ 10 * span < SecondsPerYear) =>
            (idx.num = 10 /\ idx.den = 1)

\* a unit whose single event lies after the clock reading, next to nothing
\* else: the floor applies
C10_Witness ==
  \E k \in 1..Len(unitHistories) :
    /\ RawCount(unitHistories[k].unidad) = 1
    /\ unitHistories[k].current_duration_seconds < 0
    /\ unitHistories[k].history = <<>>
    /\ unitHistories[k].failure_rate_index = [num |-> 10, den |-> 1]

\* the enriched events whose downtime is a known number within [lo, hi)
InRange(lo, hi) ==
  Cardinality({i \in 1..Len(enrichedChanges) :
                 LET d == enrichedChanges[i].downtime_seconds
                 IN IsNum(d) /\ d.n > 0 /\ lo <= d.n /\ d.n < hi})

\* the enriched events whose downtime is a known positive number >= lo
AtLeast(lo) ==
  Cardinality({i \in 1..Len(enrichedChanges) :
                 LET d == enrichedChanges[i].downtime_seconds
                 IN IsNum(d) /\ d.n > 0 /\ lo <= d.n})

\* C11 - Bucket partition: each enriched event with known positive downtime
\* is counted in exactly one of the buckets <300, [300,3600), [3600,86400),
\* >=86400; events with unknown or non-positive downtime are counted in
\* none; the four counts sum to the number of events with known positive
\* downtime.
C11_BucketPartition ==
  stats # NoStats =>
    /\ stats.buckets.under5m = InRange(0, 300)
    /\ stats.buckets.under1h = InRange(300, 3600)
    /\ stats.buckets.under24h = InRange(3600, 86400)
    /\ stats.buckets.over24h = AtLeast(86400)
    /\ stats.buckets.under5m + stats.buckets.under1h
         + stats.buckets.under24h + stats.buckets.over24h
           = AtLeast(0)
    /\ stats.eventsWithDowntime = AtLeast(0)

\* an event of exactly 300 s next to one of unknown downtime: one count,
\* in the second bucket
C11_Witness ==
  /\ stats # NoStats
  /\ Len(enrichedChanges) = 2
  /\ \E i \in 1..2 : enrichedChanges[i].downtime_seconds = Num(300)
  /\ \E i \in 1..2 : enrichedChanges[i].downtime_seconds = Undefined
  /\ stats.buckets.under1h = 1
  /\ stats.buckets.under5m = 0
  /\ stats.eventsWithDowntime = 1

\* the Unit History Builder applied to the current raw collection, search
\* substring and clock reading
BuiltHistories == UnitHistoriesOf(rawData, filters.search, nowTs)

SameEvent(a, b) ==
  /\ a.unidad = b.unidad /\ a.unit_id = b.unit_id
  /\ a.imei_ant = b.imei_ant /\ a.imei_nuevo = b.imei_nuevo
  /\ a.cambio_ts = b.cambio_ts /\ a.cambio_time = b.cambio_time
  /\ a.last = b.last /\ a.first_after = b.first_after

\* C13 - For every event and every two filter configurations that both
\* retain it, previous_identifier_lifespan_seconds is the same: it is looked
\* up in the map computed over the entire raw collection, so an event kept
\* before and after a change of configuration keeps its value.
C13_LifespanIgnoresFilters ==
  /\ [](\A i \in 1..Len(enrichedChanges) :
          enrichedChanges[i].previousImeiLifespanSeconds
            = PreviousLifespan(enrichedChanges[i], LifespanMapOf(rawData)))
  /\ [][(filters' # filters /\ rawData' = rawData) =>
          \A i \in 1..Len(enrichedChanges), j \in 1..Len(enrichedChanges') :
            SameEvent(enrichedChanges[i], enrichedChanges'[j]) =>
              enrichedChanges'[j].previousImeiLifespanSeconds
                = enrichedChanges[i].previousImeiLifespanSeconds]_vars

\* the installation is filtered out and the swap that follows it still
\* carries the 4000 s its predecessor was in service
C13_Witness ==
  /\ filters.hideInstallations
  /\ Len(rawData) = 2
  /\ Len(enrichedChanges) = 1
  /\ enrichedChanges[1].previousImeiLifespanSeconds = Num(4000)

C15_NoFatalError == stats # RenderError

FilterOptions ==
  {"search", "dateFrom", "dateTo", "minDowntime", "maxDowntime",
   "onlyWithDowntime", "hideInstallations", "onlyMultipleChanges",
   "onlyPowerCuts"}

\* the configuration in which only option k of f is active
Only(f, k) == [DefaultFilters EXCEPT ![k] = f[k]]

\* l passes each predicate of the current configuration taken alone
PassesEach(l) ==
  \A k \in FilterOptions :
    l \in SeqToSet(FilterEngine(rawData, Only(filters, k)))

\* C16 - The filtered output is a subsequence of the raw collection in
\* input order, and an event is in it iff it satisfies every active
\* predicate: the output is the raw collection restricted to the events
\* that each of the nine predicates, active alone, retains.
C16_Conjunction == filteredLogs = SelectSeq(rawData, PassesEach)

\* search, date_to and only_power_cuts are active together: the search
\* alone retains both events, date_to alone retains one, and the output is
\* the one event that all three accept
C16_Witness ==
  /\ filters.search # <<>>
  /\ filters.dateTo # ""
  /\ filters.onlyPowerCuts
  /\ Len(rawData) = 2
  /\ Len(FilterEngine(rawData, Only(filters, "search"))) = 2
  /\ Len(FilterEngine(rawData, Only(filters, "dateTo"))) = 1
  /\ Len(filteredLogs) = 1
  /\ filteredLogs[1] = rawData[2]

\* C17 - The enriched events are ordered by change_timestamp descending:
\* of every two adjacent enriched events the first has a change_timestamp
\* greater than or equal to the second, for every raw collection and filter
\* configuration.
C17_EnrichedDescending ==
  \A k \in 1..(Len(enrichedChanges) - 1) :
    enrichedChanges[k].cambio_ts >= enrichedChanges[k + 1].cambio_ts

\* three events loaded oldest first come out newest first
C17_Witness ==
  /\ Len(rawData) = 3
  /\ rawData[1].cambio_ts < rawData[2].cambio_ts
  /\ Len(enrichedChanges) = 3
  /\ enrichedChanges[1].cambio_ts = 5000
  /\ enrichedChanges[3].cambio_ts = 1000

\* the unit names among the raw events that match the search substring
MatchingUnits ==
  {rawData[i].unidad : i \in
     {j \in 1..Len(rawData) :
        filters.search # <<>> =>
          Includes(ToLowerCase(rawData[j].unidad),
                   ToLowerCase(filters.search))}}

LatestRawTs(u) ==
  LET ts == {rawData[i].cambio_ts : i \in
               {j \in 1..Len(rawData) : rawData[j].unidad = u}}
  IN CHOOSE x \in ts : \A y \in ts : x >= y

C19_RawUntouched ==
  /\ [](rawData = ParsedLogs(text))
  /\ [][~(loading /\ ~loading') => rawData' = rawData]_vars

\* a unit's events were loaded newest first and stay so, while the lifespan
\* map, the histories and the aggregates, which sort them, have been built
C19_Witness ==
  /\ Len(rawData) = 2
  /\ rawData[1].unidad = rawData[2].unidad
  /\ rawData[1].cambio_ts > rawData[2].cambio_ts
  /\ DOMAIN lifespanMap # {}
  /\ Len(unitHistories) = 1
  /\ Len(unitHistories[1].history) = 1
  /\ Len(enrichedChanges) = 2
  /\ stats # NoStats

\* the tier the rule assigns to a power-cut flag and an effective downtime
TierOf(powerCut, eff) ==
  IF powerCut THEN "critical"
  ELSE IF ~IsNum(eff) THEN "unknown"
  ELSE IF eff.n < 300 THEN "safe"
  ELSE IF eff.n < 3600 THEN "warning"
  ELSE "critical"

\* C20 - The risk tier is a total function of (isPowerCut, effective
\* downtime): critical if isPowerCut; otherwise safe if the downtime is
\* known and < 300, warning if known and in [300, 3600), critical if known
\* and >= 3600, and unknown exactly when the downtime is not known (null or
\* not reported).
C20_RiskTier ==
  \A i \in 1..Len(filteredLogs) :
    EnrichedFor(i).riskLevel
      = TierOf(EnrichedFor(i).isPowerCut, EffectiveDowntime(filteredLogs[i]))

\* C21 - For every enriched event, previous_identifier_lifespan_seconds is
\* the value stored in the lifespan map under (unit_name, change_timestamp,
\* new_identifier) whenever that key is present, and null exactly when the
\* key is absent; a stored lifespan of 0 is reported as 0, not null.
C21_StoredLifespanReported ==
  \A i \in 1..Len(enrichedChanges) :
    LET e == enrichedChanges[i]
        key == CompositeKey(e)
    IN IF key \in DOMAIN lifespanMap
       THEN e.previousImeiLifespanSeconds = Num(lifespanMap[key])
       ELSE e.previousImeiLifespanSeconds = Null

\* C22 - For a unit with n events, its UnitHistory has exactly n-1 closed
\* intervals listed most-recent-first; each has duration_seconds = end_ts -
\* start_ts >= 0, the end_ts of each equals the start_ts of the next more
\* recent one, the most recent ends at the latest event's change_timestamp,
\* and the current record is the latest event with elapsed duration now -
\* change_timestamp (a single event 100 s before now gives duration 100 and
\* an empty history).
C22_IntervalChain ==
  \A k \in 1..Len(unitHistories) :
    LET h == unitHistories[k]
        n == RawCount(h.unidad)
        iv == h.history
    IN /\ Len(iv) = n - 1
       /\ \A j \in 1..Len(iv) :
            /\ iv[j].duration_seconds = iv[j].end_ts - iv[j].start_ts
            /\ iv[j].duration_seconds >= 0
       /\ \A j \in 1..(Len(iv) - 1) :
            /\ iv[j + 1].end_ts = iv[j].start_ts
            /\ iv[j + 1].end_ts <= iv[j].end_ts
       /\ Len(iv) > 0 =>
            /\ iv[1].end_ts = LatestRawTs(h.unidad)
            /\ iv[Len(iv)].start_ts = FirstRawTs(h.unidad)
       /\ h.current_duration_seconds = nowTs - LatestRawTs(h.unidad)
       /\ (n = 1 /\ LatestRawTs(h.unidad) = nowTs - 100) =>
            (h.current_duration_seconds = 100 /\ iv = <<>>)

\* three swaps loaded out of order: two intervals, the later one first
C22_Witness ==
  /\ Len(rawData) = 3
  /\ rawData[1].cambio_ts = 5000
  /\ rawData[2].cambio_ts = 1000
  /\ Len(unitHistories) = 1
  /\ Len(unitHistories[1].history) = 2
  /\ unitHistories[1].history[1].end_ts = 5000
  /\ unitHistories[1].history[1].start_ts = unitHistories[1].history[2].end_ts
  /\ unitHistories[1].history[2].start_ts = 1000
  /\ unitHistories[1].history[2].duration_seconds > 0

\* the resolved SIM identifier of a reading: the direct identifier if
\* present and not the placeholder, else both fragments joined when both
\* are reported (0 included), else empty
ResolvedIccid(loc) ==
  IF Nullish(loc) THEN <<>>
  ELSE IF loc.iccid.t = "string" /\ loc.iccid.s # <<>>
          /\ loc.iccid.s # ZeroIccid
       THEN loc.iccid.s
  ELSE IF IsNum(loc.io_11) /\ IsNum(loc.io_14)
       THEN NumToStr(loc.io_11.n) \o NumToStr(loc.io_14.n)
       ELSE <<>>

\* C23 - isSimChange is true iff the resolved SIM identifiers of
\* last_signal and first_signal_after are both non-empty and differ, where
\* a fragment whose value is 0 counts as present.
C23_SimChange ==
  \A i \in 1..Len(enrichedChanges) :
    LET e == enrichedChanges[i]
        old == ResolvedIccid(e.last)
        new == ResolvedIccid(e.first_after)
    IN e.isSimChange = (old # <<>> /\ new # <<>> /\ old # new)

\* C24 - The lemon list is the at most 5 UnitHistory entries with the
\* highest failure_rate_index, in descending order of the index: it has
\* min(5, number of units) entries, each a different unit's history, and no
\* unit outside the list has a strictly higher index than a unit inside.
C24_Lemons ==
  stats # NoStats =>
    LET L == stats.lemons
        all == SeqToSet(unitHistories)
        inside == SeqToSet(L)
    IN /\ Len(L) = IF Len(unitHistories) < 5 THEN Len(unitHistories) ELSE 5
       /\ inside \subseteq all
       /\ Cardinality({h.unidad : h \in inside}) = Len(L)
       /\ \A k \in 1..(Len(L) - 1) :
            ~FracLess(L[k].failure_rate_index, L[k + 1].failure_rate_index)
       /\ \A h \in all \ inside : \A l \in inside :
            ~FracLess(l.failure_rate_index, h.failure_rate_index)

\* six units: the list holds five, led by the unit seen for an eighth of a
\* year, and leaves out the unit seen for a whole year
C24_Witness ==
  /\ stats # NoStats
  /\ Len(unitHistories) = 6
  /\ Len(stats.lemons) = 5
  /\ stats.lemons[1].failure_rate_index = [num |-> 8, den |-> 1]
  /\ stats.lemons[5].failure_rate_index = [num |-> 2, den |-> 1]
  /\ \A k \in 1..5 : stats.lemons[k].unidad # U1

\* positions of the enriched events with a known positive downtime
SampleIdx ==
  { i \in 1..Len(enrichedChanges) : HasDowntime(enrichedChanges[i]) }

\* v is the element at 0-based index k of the sample sorted ascending
SampleRank(v, k) ==
  /\ \E i \in SampleIdx : enrichedChanges[i].downtime_seconds.n = v
  /\ Cardinality({ i \in SampleIdx :
                     enrichedChanges[i].downtime_seconds.n < v }) <= k
  /\ k < Cardinality({ i \in SampleIdx :
                         enrichedChanges[i].downtime_seconds.n <= v })

\* C25 - The percentile p (0.5 and 0.9) over the known positive downtimes is
\* the element at index floor(length * p) of the sample sorted ascending,
\* an index that is valid for every non-empty sample, and is 0 when the
\* sample is empty; so p50 <= p90 and both are members of a non-empty sample.
C25_Percentiles ==
  stats # NoStats =>
    LET n == Cardinality(SampleIdx)
        k50 == (n * 5) \div 10
        k90 == (n * 9) \div 10
    IN IF n = 0
         THEN stats.p50 = 0 /\ stats.p90 = 0
         ELSE /\ k50 \in 0..(n - 1)
              /\ k90 \in 0..(n - 1)
              /\ SampleRank(stats.p50, k50)
              /\ SampleRank(stats.p90, k90)
              /\ stats.p50 <= stats.p90

\* a sample of three, given out of order: the median is the middle element
\* and the 90th percentile the largest
C25_Witness ==
  /\ stats # NoStats
  /\ Len(enrichedChanges) = 3
  /\ enrichedChanges[1].downtime_seconds = Num(3600)
  /\ enrichedChanges[2].downtime_seconds = Num(300)
  /\ enrichedChanges[3].downtime_seconds = Num(300)
  /\ stats.p50 = 300
  /\ stats.p90 = 3600

\* C26 - Whenever only_power_cuts is on, every event of the enriched output
\* has isPowerCut = true and riskLevel = critical: the filter's power-cut
\* predicate and the enricher's flag select the same events for every
\* external voltage, negative ones included.
C26_PowerCutAgreement ==
  filters.onlyPowerCuts =>
    \A i \in 1..Len(enrichedChanges) :
      /\ enrichedChanges[i].isPowerCut
      /\ enrichedChanges[i].riskLevel = "critical"

\* C27 - The Lifespan Calculator and the Unit History Builder agree: for
\* every unit matching the search and every event of it but the
\* chronologically first, the previous lifespan stored under the event's
\* key is the duration_seconds of the unit's closed interval that ends at
\* that event, also when two events of the unit share timestamp and new
\* identifier.
C27_LifespanMatchesIntervals ==
  \A h \in SeqToSet(unitHistories) :
    LET e == SortedAsc(GroupOf(rawData, h.unidad))
        n == Len(e)
    IN /\ Len(h.history) = n - 1
       /\ \A k \in 2..n :
            /\ h.history[n - k + 1].end_ts = e[k].cambio_ts
            /\ MapGet(lifespanMap, CompositeKey(e[k]))
                 = Num(h.history[n - k + 1].duration_seconds)

\* C28 - For every UnitHistory, the number of closed intervals plus one is
\* the number of events of that unit in the full raw collection, the count
\* only_multiple_changes uses, for every search value: the search selects
\* whole units, never a part of one unit's events.
C28_WholeUnits ==
  \A h \in SeqToSet(unitHistories) :
    /\ h.unidad \in DOMAIN unitChangeCounts
    /\ Len(h.history) + 1 = unitChangeCounts[h.unidad]
    /\ Len(h.history) + 1 = RawCount(h.unidad)

\* a search that matches a unit with an installation and a swap: one
\* history with one closed interval, for a count of two
C28_Witness ==
  /\ filters.search = <<"u", "1">>
  /\ ~filters.hideInstallations
  /\ RawCount(U1) = 2
  /\ \E i \in 1..Len(rawData) : IsInstallation(rawData[i])
  /\ Len(unitHistories) = 1
  /\ unitHistories[1].unidad = U1
  /\ Len(unitHistories[1].history) = 1
  /\ unitChangeCounts[U1] = 2

\* the positions of the enriched records made from filteredLogs[i]
EnrichedAt(i) ==
  { k \in 1..Len(enrichedChanges) :
      enrichedChanges[k].id
        = NumToStr(filteredLogs[i].unit_id) \o <<"-">> \o NumToStr(i - 1) }

\* C29 - Enrichment neither drops nor duplicates events: the enriched
\* collection has as many entries as the filtered collection, each filtered
\* event appears in it once with its raw fields other than downtime_seconds
\* unchanged, and the ids of the enriched events are pairwise distinct.
C29_EnrichmentOneToOne ==
  /\ Len(enrichedChanges) = Len(filteredLogs)
  /\ \A i \in 1..Len(filteredLogs) :
       /\ Cardinality(EnrichedAt(i)) = 1
       /\ \A k \in EnrichedAt(i) :
            /\ SameEvent(enrichedChanges[k], filteredLogs[i])
            /\ enrichedChanges[k].status = filteredLogs[i].status
  /\ \A j, k \in 1..Len(enrichedChanges) :
       j # k => enrichedChanges[j].id # enrichedChanges[k].id

\* the same line loaded twice, and a third event of the same unit: three
\* enriched records, the two equal events told apart by their ids
C29_Witness ==
  /\ Len(filteredLogs) = 3
  /\ filteredLogs[1] = filteredLogs[2]
  /\ filteredLogs[3].unidad = filteredLogs[1].unidad
  /\ Len(enrichedChanges) = 3
  /\ Cardinality({enrichedChanges[k].id : k \in 1..3}) = 3

\* the non-blank lines of a batch that are not accepted
RejectedLines(lines) ==
  Len(SelectSeq(lines, LAMBDA l : NonBlank(l) /\ ~IsOkRecord(l)))

\* a batch has just been processed
LoadCompletes == loading /\ ~loading'

\* C30 - Loading a batch replaces the state instead of accumulating it:
\* after any sequence of batch loads the raw collection is the accepted
\* events of the most recently processed batch and the error count is that
\* batch's rejected non-blank lines, so both describe the same batch and
\* nothing of an earlier batch remains; between loads neither changes.
C30_LoadReplaces ==
  /\ [](rawData = OkRecords(text) /\ errorCount = RejectedLines(text))
  /\ [][LoadCompletes => /\ Len(rawData') = Len(OkRecords(text'))
                         /\ Len(rawData') + errorCount'
                              = Len(SelectSeq(text', NonBlank))]_vars
  /\ [][~LoadCompletes => /\ rawData' = rawData
                          /\ errorCount' = errorCount
                          /\ text' = text]_vars

\* the batch on screen has one accepted event of unit U2 and one rejected
\* line, and another load has been started
C30_Witness ==
  /\ loading
  /\ Len(text) = 2
  /\ Len(rawData) = 1
  /\ rawData[1].unidad = U2
  /\ errorCount = 1
  /\ Len(enrichedChanges) = 1

====
